---- MODULE Spec2Model ----
(***************************************************************************)
(* Finite-difference solvers of Wave2D.py and poisson2d.py: the second     *)
(* difference operator D2, the leapfrog wave solve (Dirichlet and Neumann),*)
(* the assembly of the Poisson system and the convergence sweep.           *)
(*                                                                         *)
(* Numbers.  The program computes in IEEE doubles.  The model computes in  *)
(* exact rationals <<n, d>> (d > 0, lowest terms), so rounding is not      *)
(* modelled; the sampled manufactured solutions (sines, cosines,           *)
(* exponentials) are replaced by rational-valued mesh functions.           *)
(***************************************************************************)
EXTENDS Integers, Sequences, FiniteSets, TLC

(* ------------------------------ bounds -------------------------------- *)
\* largest N the operator builder is run with
MaxD2N == 7
\* largest domain length L of a Poisson2D instance
MaxL == 2

(* --------------------------- exact rationals -------------------------- *)
Abs(a) == IF a < 0 THEN -a ELSE a

RECURSIVE GCD(_, _)
GCD(a, b) == IF b = 0 THEN a ELSE GCD(b, a % b)

\* the rational n/d in lowest terms with a positive denominator
Norm(n, d) ==
    LET g == GCD(Abs(n), Abs(d))
        s == IF d < 0 THEN -1 ELSE 1
    IN  <<(s * n) \div g, (s * d) \div g>>

RInt(k) == <<k, 1>>
RAdd(p, q) == IF p[1] = 0 THEN q ELSE IF q[1] = 0 THEN p
              ELSE Norm(p[1] * q[2] + q[1] * p[2], p[2] * q[2])
RNeg(p) == <<-p[1], p[2]>>
RSub(p, q) == RAdd(p, RNeg(q))
RMul(p, q) == IF p[1] = 0 \/ q[1] = 0 THEN <<0, 1>>
              ELSE Norm(p[1] * q[1], p[2] * q[2])
\* true division p / q of two numbers, q nonzero
RDiv(p, q) == Norm(p[1] * q[2], p[2] * q[1])
RZero == RInt(0)

(* ------------------------ numpy / scipy pieces ------------------------ *)
\* numpy integer floor modulo as Python's %: the result has the divisor's sign
PyMod(a, b) == IF b > 0 THEN a % b ELSE -((-a) % (-b))

\* the column indices a[:k] selects in an axis of length n
SliceHead(k, n) == [c \in 1..(IF k < n THEN k ELSE n) |-> c - 1]
\* the column indices a[-k:] selects in an axis of length n
SliceTail(k, n) ==
    LET lo == IF n - k > 0 THEN n - k ELSE 0
    IN  [c \in 1..(n - lo) |-> lo + c - 1]

\* sparse.diags([1, -2, 1], [-1, 0, 1], (N+1, N+1), 'lil')
diags(N) ==
    [r \in 0..N |-> [c \in 0..N |->
        IF c = r - 1 THEN 1 ELSE IF c = r THEN -2 ELSE IF c = r + 1 THEN 1 ELSE 0]]

\* mutant: an assignment that drops the values that do not fit
SetRowOkTruncating(cols, vals) == Len(cols) <= Len(vals)
\* lil_matrix D[row, cols] = vals: a sequence of values broadcasts to the
\* selected columns only when the lengths agree; otherwise ValueError
SetRowOk(cols, vals) == Len(cols) = Len(vals)
SetRow(M, row, cols, vals) ==
    [M EXCEPT ![row] = [c \in DOMAIN M[row] |->
        IF \E k \in 1..Len(cols) : cols[k] = c
        THEN vals[CHOOSE k \in 1..Len(cols) : cols[k] = c]
        ELSE M[row][c]]]

\* D / self.h**2, entry by entry
OverH2(M, h) ==
    [r \in DOMAIN M |-> [c \in DOMAIN M[r] |-> RDiv(RInt(M[r][c]), RMul(h, h))]]

(* --------------------------- the classes ------------------------------ *)
Classes == {"Wave2D", "Wave2D_Neumann", "Poisson2D"}

\* the values and columns of the two boundary-row assignments of D2
Row0Vals(cls) == IF cls = "Wave2D_Neumann" THEN <<-2, 2>> ELSE <<2, -5, 4, -1>>
\* mutant: the last row given the first row's stencil, not its mirror image
RowNValsUnmirrored(cls) == Row0Vals(cls)
RowNVals(cls) == IF cls = "Wave2D_Neumann" THEN <<2, -2>> ELSE <<-1, 4, -5, 2>>
Row0Cols(cls, N) == SliceHead(Len(Row0Vals(cls)), N + 1)
RowNCols(cls, N) == SliceTail(Len(RowNVals(cls)), N + 1)

\* D2 of class cls at resolution N and spacing h: a record with ok = TRUE
\* and the matrix in val, or ok = FALSE and the exception raised in err
D2(cls, N, h) ==
    LET D0 == diags(N) IN
    IF ~SetRowOk(Row0Cols(cls, N), Row0Vals(cls))
    THEN [ok |-> FALSE, err |-> "ValueError", val |-> <<>>]
    ELSE
      LET D1 == SetRow(D0, 0, Row0Cols(cls, N), Row0Vals(cls)) IN
      IF ~SetRowOk(RowNCols(cls, N), RowNVals(cls))
      THEN [ok |-> FALSE, err |-> "ValueError", val |-> <<>>]
      ELSE [ok |-> TRUE, err |-> "",
            val |-> OverH2(SetRow(D1, N, RowNCols(cls, N), RowNVals(cls)), h)]

(* ========================= the wave solve ============================= *)
\* a stand-in for sin(pi*z), z >= 0 a rational: the triangle wave through the
\* sine's zeros and extrema (0 at the integers, +1/-1 half way between)
TriSin(z) ==
    LET k == z[1] \div z[2]
        f == RSub(z, RInt(k))
        up == IF f[1] * 2 <= f[2] THEN RMul(RInt(2), f)
              ELSE RMul(RInt(2), RSub(RInt(1), f))
    IN  IF k % 2 = 0 THEN up ELSE RNeg(up)
\* cos(pi*z) = sin(pi*(z + 1/2))
TriCos(z) == TriSin(RAdd(z, <<1, 2>>))

\* ue(mx, my) sampled at (x, y) and t = 0, where cos(w*t) = 1
ue0(cls, mx, my, x, y) ==
    IF cls = "Wave2D_Neumann"
    THEN RMul(TriCos(RMul(RInt(mx), x)), TriCos(RMul(RInt(my), y)))
    ELSE RMul(TriSin(RMul(RInt(mx), x)), TriSin(RMul(RInt(my), y)))

\* np.linspace(0, 1, N+1) and the 'ij' meshgrid of it
linspace(L, N) == [k \in 0..N |-> RDiv(RInt(k * L), RInt(N))]
create_mesh(N) ==
    [xij |-> [r \in 0..N |-> [c \in 0..N |-> linspace(1, N)[r]]],
     yij |-> [r \in 0..N |-> [c \in 0..N |-> linspace(1, N)[c]]]]

\* array arithmetic on (N+1)x(N+1) arrays
zeros(N) == [r \in 0..N |-> [c \in 0..N |-> RZero]]
GAdd(A, B) == [r \in DOMAIN A |-> [c \in DOMAIN A[r] |-> RAdd(A[r][c], B[r][c])]]
GSub(A, B) == [r \in DOMAIN A |-> [c \in DOMAIN A[r] |-> RSub(A[r][c], B[r][c])]]
GScale(q, A) == [r \in DOMAIN A |-> [c \in DOMAIN A[r] |-> RMul(q, A[r][c])]]
Transpose(A) == [r \in DOMAIN A |-> [c \in DOMAIN A |-> A[c][r]]]
\* the products A[r][k] * B[k][c] of one entry of A @ B
Dot(A, B, r, c) == [k \in DOMAIN A |-> RMul(A[r][k], B[k][c])]
RECURSIVE RSum(_, _)
RSum(f, n) == IF n < 0 THEN RZero ELSE RAdd(RSum(f, n - 1), f[n])
MatMul(A, B) ==
    LET n == Cardinality(DOMAIN A) - 1
    IN  [r \in DOMAIN A |-> [c \in DOMAIN A |-> RSum(Dot(A, B, r, c), n)]]
\* D2 @ U + U @ D2.T
Laplace2(D, U) == GAdd(MatMul(D, U), MatMul(U, Transpose(D)))

\* the dt property: cfl * h / c
dt(self) == RDiv(RMul(self.cfl, self.h), self.c)

\* l2_error(u, t0): the square root of h^2 * sum((u - u_exact(t0))^2) is kept as
\* the term of its arguments, the array compared and the time of comparison
l2_error(u, t0) == [u |-> u, t0 |-> t0]

\* mutant: the last column is left as the update computed it
apply_bcsNoLastColumn(cls, ref, heap) ==
    IF cls = "Wave2D_Neumann" THEN heap
    ELSE LET U == heap[ref.Unp1]
             N == Cardinality(DOMAIN U) - 1
         IN  [heap EXCEPT ![ref.Unp1] =
                [r \in 0..N |-> [c \in 0..N |->
                    IF r = 0 \/ r = N \/ c = 0 THEN RZero ELSE U[r][c]]]]

\* apply_bcs on the array Unp1 names
apply_bcs(cls, ref, heap) ==
    IF cls = "Wave2D_Neumann" THEN heap
    ELSE LET U == heap[ref.Unp1]
             N == Cardinality(DOMAIN U) - 1
         IN  [heap EXCEPT ![ref.Unp1] =
                [r \in 0..N |-> [c \in 0..N |->
                    IF r = 0 \/ r = N \/ c = 0 \/ c = N THEN RZero ELSE U[r][c]]]]

\* self.Unp1[:] = 2*Un - Unm1 + (c*dt)**2 * (D2 @ Un + Un @ D2.T)
Leapfrog(self, D, ref, heap) ==
    LET cdt == RMul(self.c, dt(self)) IN
    [heap EXCEPT ![ref.Unp1] =
        GAdd(GSub(GScale(RInt(2), heap[ref.Un]), heap[ref.Unm1]),
             GScale(RMul(cdt, cdt), Laplace2(D, heap[ref.Un])))]

\* mutant: the names are rebound (self.Unm1 = self.Un; self.Un = self.Unp1)
\* instead of the arrays being overwritten
RotateRebinding(ref, heap) ==
    [ref |-> [Unp1 |-> ref.Unp1, Un |-> ref.Unp1, Unm1 |-> ref.Un], heap |-> heap]

\* self.Unm1[:] = self.Un ; self.Un[:] = self.Unp1
Rotate(ref, heap) ==
    LET h1 == [heap EXCEPT ![ref.Unm1] = heap[ref.Un]]
    IN  [ref |-> ref, heap |-> [h1 EXCEPT ![ref.Un] = h1[ref.Unp1]]]

\* mutant: the snapshot is taken of Un
SnapshotOfUn(ref, heap) == heap[ref.Un]

\* self.Unm1.copy()
Snapshot(ref, heap) == heap[ref.Unm1]

\* mutant: a loop over range(1, Nt + 1)
InRangeInclusive(i, Nt) == i <= Nt

\* range(1, Nt) still has the value i
InRange(i, Nt) == i < Nt

(* ----------------------- Poisson2D, its pieces ------------------------ *)
\* the manufactured solutions a Poisson2D is built with, and for each the
\* source term f = ue_xx + ue_yy that __init__ derives
Solutions == {"x**3 + x*y**2", "x**2*y**2 + y"}
RPow(z, n) == IF n = 0 THEN RInt(1) ELSE IF n = 1 THEN z
              ELSE IF n = 2 THEN RMul(z, z) ELSE RMul(z, RMul(z, z))
ue_at(ue, x, y) ==
    IF ue = "x**3 + x*y**2" THEN RAdd(RPow(x, 3), RMul(x, RPow(y, 2)))
    ELSE RAdd(RMul(RPow(x, 2), RPow(y, 2)), y)
f_at(ue, x, y) ==
    IF ue = "x**3 + x*y**2" THEN RMul(RInt(8), x)
    ELSE RAdd(RMul(RInt(2), RPow(y, 2)), RMul(RInt(2), RPow(x, 2)))

\* sparse.eye(n + 1)
eye(n) == [r \in 0..n |-> [c \in 0..n |-> IF r = c THEN RInt(1) ELSE RZero]]
\* sparse.kron(P, Q) of two (n+1)x(n+1) matrices: block (r1, c1) is P[r1][c1] * Q
kron(P, Q) ==
    LET n1 == Cardinality(DOMAIN P) IN
    [r \in 0..(n1 * n1 - 1) |-> [c \in 0..(n1 * n1 - 1) |->
        RMul(P[r \div n1][c \div n1], Q[r % n1][c % n1])]]
\* laplace(): kron(D2, I) + kron(I, D2)
laplace(D, N) == GAdd(kron(D, eye(N)), kron(eye(N), D))

\* a.ravel() of an (N+1)x(N+1) array, row-major
ravel(G) ==
    LET n1 == Cardinality(DOMAIN G) IN
    [k \in 0..(n1 * n1 - 1) |-> G[k \div n1][k % n1]]

\* the elements of a finite set of integers in increasing order
RECURSIVE Ascending(_)
Ascending(S) ==
    IF S = {} THEN <<>>
    ELSE LET lo == CHOOSE v \in S : \A w \in S : v <= w
         IN  <<lo>> \o Ascending(S \ {lo})

\* get_boundary_indices(): ones, the slice [1:-1, 1:-1] zeroed, np.where(... == 1)
get_boundary_indices(N) ==
    LET indices == [r \in 0..N |-> [c \in 0..N |->
                      IF r >= 1 /\ r < N /\ c >= 1 /\ c < N THEN 0 ELSE 1]]
    IN  Ascending({k \in DOMAIN ravel(indices) : ravel(indices)[k] = 1})

\* mutant: the diagonal is set but the row is not zeroed first
ReplaceRowKeepingRow(M, k) == [M EXCEPT ![k][k] = RInt(1)]

\* A[i] = 0 ; A[i, i] = 1
ReplaceRow(M, k) == [M EXCEPT ![k] = [c \in DOMAIN M[k] |-> IF c = k THEN RInt(1) ELSE RZero]]

\* b = F.ravel() ; b[bnds] = u_exact.ravel()[bnds]
Rhs(F, U, idx) ==
    [k \in DOMAIN ravel(F) |->
        IF \E n \in 1..Len(idx) : idx[n] = k THEN ravel(U)[k] ELSE ravel(F)[k]]

(* --------------------- convergence_rates, its pieces ------------------ *)
\* the resolution of the first level
N0 == 8

\* a Python list element a[k], k >= 0, of a list kept as a sequence
PyAt(a, k) == a[k + 1]

\* what one solve of the sweep hands back: the spacing of its mesh and, as the
\* term of the solve's arguments, the l2 error of its final field.  A wave
\* solve returns (h, l2 list) with h = 1/N, and the sweep takes err[-1]; a Poisson
\* solve leaves h = L/N in self.h, and the sweep takes self.l2_error(u)
Solve(obj, N, Nt, a) ==
    IF obj.cls = "Poisson2D"
    THEN [dx |-> RDiv(RInt(obj.L), RInt(N)),
          err |-> [cls |-> obj.cls, N |-> N, L |-> obj.L]]
    ELSE [dx |-> RDiv(RInt(1), RInt(N)),
          err |-> [cls |-> obj.cls, N |-> N, Nt |-> Nt, cfl |-> a.cfl,
                   mx |-> a.mx, my |-> a.my, store_data |-> -1]]

\* np.log(e0/e1) / np.log(h0/h1), kept as the term of its four arguments
LogRatio(e0, e1, h0, h1) == [E |-> <<e0, e1>>, h |-> <<h0, h1>>]

\* mutant: range(1, m)
RateRangeShort(m) == 1..(m - 1)

\* range(1, m+1, 1)
RateRange(m) == 1..m

\* mutant: the resolution grows by N0 each level instead of doubling
RefineLinear(n) == n + N0

\* N0 *= 2 (and Nt *= 2)
Refine(n) == n * 2

(* =================== the operator builder on its own ================== *)
\* the operator builder
VARIABLES d2pc, d2self, d2D, d2ret
\* the wave solve; layers is the history of the time layers computed, layers[k+1]
\* the layer of time k*dt
VARIABLES pc, args, self, ref, heap, i, l2_list, plot_data, ret, layers

\* the Poisson assembly: pA, pb, pbnds are assemble's A, b, bnds and pk counts
\* the boundary rows the loop has replaced
VARIABLES ppc, pN, pself, pA, pb, pbnds, pk

\* the convergence sweep: cargs are the caller's arguments, cm, cN, cNt the
\* names m, N0, Nt of the body, cnext the next value of range(m), cE, ch, cr the
\* lists E, h, r, and calls the history of the solves invoked
VARIABLES cpc, cself, cargs, cm, cN, cNt, cnext, cE, ch, cr, calls

d2vars == <<d2pc, d2self, d2D, d2ret>>
convvars == <<cpc, cself, cargs, cm, cN, cNt, cnext, cE, ch, cr, calls>>
poissonvars == <<ppc, pN, pself, pA, pb, pbnds, pk>>
wavevars == <<pc, args, self, ref, heap, i, l2_list, plot_data, ret, layers>>
vars == <<d2vars, wavevars, poissonvars, convvars>>

\* a machine that is not the one being run
D2Idle == d2pc = "idle" /\ d2self = <<>> /\ d2D = <<>> /\ d2ret = <<>>
WaveIdle ==
    /\ pc = "idle" /\ args = <<>> /\ self = <<>> /\ ref = <<>> /\ heap = <<>>
    /\ i = 0 /\ l2_list = <<>> /\ plot_data = <<>> /\ ret = <<>> /\ layers = <<>>
PoissonIdle ==
    /\ ppc = "idle" /\ pN = 0 /\ pself = <<>> /\ pA = <<>> /\ pb = <<>>
    /\ pbnds = <<>> /\ pk = 0
ConvIdle ==
    /\ cpc = "idle" /\ cself = <<>> /\ cargs = <<>> /\ cm = 0 /\ cN = 0 /\ cNt = 0
    /\ cnext = 0 /\ cE = <<>> /\ ch = <<>> /\ cr = <<>> /\ calls = <<>>
D2Only == UNCHANGED <<wavevars, poissonvars, convvars>>
WaveOnly == UNCHANGED <<d2vars, poissonvars, convvars>>
PoissonOnly == UNCHANGED <<d2vars, wavevars, convvars>>
ConvOnly == UNCHANGED <<d2vars, wavevars, poissonvars>>

\* the instances D2 is called on: the wave solvers set h = 1/N in __call__,
\* Poisson2D sets h = L/N in create_mesh
D2Instances ==
    { [cls |-> cls, N |-> N, h |-> RDiv(RInt(1), RInt(N))] :
        cls \in {"Wave2D", "Wave2D_Neumann"}, N \in 1..MaxD2N }
    \cup
    { [cls |-> "Poisson2D", N |-> N, h |-> RDiv(RInt(L), RInt(N))] :
        N \in 1..MaxD2N, L \in 1..MaxL }

D2Init ==
    /\ d2pc = "diags"
    /\ d2self \in D2Instances
    /\ d2D = <<>>
    /\ d2ret = [ok |-> FALSE, err |-> "", val |-> <<>>]
    /\ WaveIdle /\ PoissonIdle /\ ConvIdle

D2Diags ==
    /\ d2pc = "diags"
    /\ d2D' = diags(d2self.N)
    /\ d2pc' = "row0"
    /\ UNCHANGED <<d2self, d2ret>>
    /\ D2Only

D2Row0 ==
    /\ d2pc = "row0"
    /\ SetRowOk(Row0Cols(d2self.cls, d2self.N), Row0Vals(d2self.cls))
    /\ d2D' = SetRow(d2D, 0, Row0Cols(d2self.cls, d2self.N), Row0Vals(d2self.cls))
    /\ d2pc' = "rowN"
    /\ UNCHANGED <<d2self, d2ret>>
    /\ D2Only

D2RowN ==
    /\ d2pc = "rowN"
    /\ SetRowOk(RowNCols(d2self.cls, d2self.N), RowNVals(d2self.cls))
    /\ d2D' = SetRow(d2D, d2self.N, RowNCols(d2self.cls, d2self.N), RowNVals(d2self.cls))
    /\ d2pc' = "scale"
    /\ UNCHANGED <<d2self, d2ret>>
    /\ D2Only

\* the assignment at d2pc does not broadcast: the exception leaves D2
D2Raise ==
    /\ d2pc \in {"row0", "rowN"}
    /\ IF d2pc = "row0"
       THEN ~SetRowOk(Row0Cols(d2self.cls, d2self.N), Row0Vals(d2self.cls))
       ELSE ~SetRowOk(RowNCols(d2self.cls, d2self.N), RowNVals(d2self.cls))
    /\ d2ret' = [ok |-> FALSE, err |-> "ValueError", val |-> <<>>]
    /\ d2pc' = "raised"
    /\ UNCHANGED <<d2self, d2D>>
    /\ D2Only

D2Return ==
    /\ d2pc = "scale"
    /\ d2ret' = [ok |-> TRUE, err |-> "", val |-> OverH2(d2D, d2self.h)]
    /\ d2pc' = "returned"
    /\ UNCHANGED <<d2self, d2D>>
    /\ D2Only

D2Next == D2Diags \/ D2Row0 \/ D2RowN \/ D2Raise \/ D2Return

SpecD2 == D2Init /\ [][D2Next]_vars

(* ===================== the wave solve, its steps ====================== *)
\* largest N, Nt and store_data of a wave solve
MaxN == 4
MaxNt == 4
MaxStore == 2

WaveArgs ==
    [cls : {"Wave2D", "Wave2D_Neumann"}, N : 2..MaxN, Nt : 1..MaxNt,
     cfl : {<<1, 2>>, <<1, 1>>}, c : {RInt(1)}, mx : {2, 3}, my : {3},
     store_data : -1..MaxStore]

Init ==
    /\ pc = "call"
    /\ args \in WaveArgs
    /\ self = [cls |-> args.cls]
    /\ ref = [Unp1 |-> 0, Un |-> 0, Unm1 |-> 0]
    /\ heap = <<>>
    /\ i = 0
    /\ l2_list = <<>>
    /\ plot_data = <<>>
    /\ ret = <<>>
    /\ layers = <<>>
    /\ D2Idle /\ PoissonIdle /\ ConvIdle

\* __call__ up to the first D2 of initialize: the attributes and the three arrays
Entered ==
    [cls |-> args.cls, h |-> RDiv(RInt(1), RInt(args.N)), c |-> args.c,
     cfl |-> args.cfl, mx |-> args.mx, my |-> args.my,
     xij |-> create_mesh(args.N).xij, yij |-> create_mesh(args.N).yij]
Sampled0 ==
    [r \in 0..args.N |-> [c \in 0..args.N |->
        ue0(args.cls, args.mx, args.my, Entered.xij[r][c], Entered.yij[r][c])]]

\* lines 104-113 when D2 returns: initialize, the first error, the empty dict
WaveCall ==
    /\ pc = "call"
    /\ D2(args.cls, args.N, Entered.h).ok
    /\ LET D == D2(args.cls, args.N, Entered.h).val
           half == RDiv(RMul(RMul(Entered.c, Entered.c),
                             RMul(dt(Entered), dt(Entered))), RInt(2))
           U1 == GAdd(Sampled0, GScale(half, Laplace2(D, Sampled0)))
       IN  /\ self' = Entered
           /\ ref' = [Unp1 |-> 1, Un |-> 2, Unm1 |-> 3]
           /\ heap' = <<zeros(args.N), U1, Sampled0>>
           /\ l2_list' = <<l2_error(U1, dt(Entered))>>
           /\ layers' = <<Sampled0, U1>>
    /\ plot_data' = <<>>
    /\ i' = 1
    /\ pc' = "loop"
    /\ UNCHANGED <<args, ret>>
    /\ WaveOnly

\* the D2 of initialize raises: the arrays exist, Unm1 is filled, Un is not
WaveCallRaise ==
    /\ pc = "call"
    /\ ~D2(args.cls, args.N, Entered.h).ok
    /\ self' = Entered
    /\ ref' = [Unp1 |-> 1, Un |-> 2, Unm1 |-> 3]
    /\ heap' = <<zeros(args.N), zeros(args.N), Sampled0>>
    /\ layers' = <<Sampled0>>
    /\ ret' = D2(args.cls, args.N, Entered.h).err
    /\ pc' = "raised"
    /\ UNCHANGED <<args, i, l2_list, plot_data>>
    /\ WaveOnly

\* one pass of the loop body, lines 116-122
WaveStep ==
    /\ pc = "loop"
    /\ InRange(i, args.Nt)
    /\ LET D == D2(self.cls, args.N, self.h).val
           h1 == apply_bcs(self.cls, ref, Leapfrog(self, D, ref, heap))
           m2 == Rotate(ref, h1)
       IN  /\ ref' = m2.ref
           /\ heap' = m2.heap
           /\ layers' = Append(layers, h1[ref.Unp1])
           /\ l2_list' = Append(l2_list,
                                l2_error(m2.heap[m2.ref.Un], RMul(RInt(i + 1), dt(self))))
           /\ IF args.store_data = 0
              THEN /\ pc' = "raised"
                   /\ ret' = "ZeroDivisionError"
                   /\ UNCHANGED <<plot_data, i>>
              ELSE /\ plot_data' =
                        IF PyMod(i, args.store_data) = 0
                        THEN [k \in DOMAIN plot_data \cup {i} |->
                                IF k = i THEN Snapshot(m2.ref, m2.heap) ELSE plot_data[k]]
                        ELSE plot_data
                   /\ i' = i + 1
                   /\ UNCHANGED <<pc, ret>>
    /\ UNCHANGED <<args, self>>
    /\ WaveOnly

\* lines 123-125
WaveReturn ==
    /\ pc = "loop"
    /\ ~InRange(i, args.Nt)
    /\ ret' = IF args.store_data = -1 THEN <<self.h, l2_list>>
              ELSE <<self.xij, self.yij, plot_data>>
    /\ pc' = "returned"
    /\ UNCHANGED <<args, self, ref, heap, i, l2_list, plot_data, layers>>
    /\ WaveOnly

Next == WaveCall \/ WaveCallRaise \/ WaveStep \/ WaveReturn

Spec == Init /\ [][Next]_vars

(* ====================== the Poisson assembly ========================== *)
\* largest N the Poisson system is assembled for
MaxPN == 4

\* after __init__(L, ue), about to run create_mesh(N) and assemble()
PoissonInit ==
    /\ ppc = "create_mesh"
    /\ pN \in 1..MaxPN
    /\ pself \in [L : 1..MaxL, ue : Solutions]
    /\ pA = <<>> /\ pb = <<>> /\ pbnds = <<>> /\ pk = 0
    /\ D2Idle /\ WaveIdle /\ ConvIdle

\* create_mesh(N)
PoissonMesh ==
    /\ ppc = "create_mesh"
    /\ pself' = [L |-> pself.L, ue |-> pself.ue,
                 xy |-> linspace(pself.L, pN),
                 xij |-> [r \in 0..pN |-> [c \in 0..pN |-> linspace(pself.L, pN)[r]]],
                 yij |-> [r \in 0..pN |-> [c \in 0..pN |-> linspace(pself.L, pN)[c]]],
                 N |-> pN, h |-> RDiv(RInt(pself.L), RInt(pN))]
    /\ ppc' = "laplace"
    /\ UNCHANGED <<pN, pA, pb, pbnds, pk>>
    /\ PoissonOnly

\* A = self.laplace().tolil() ; bnds = self.get_boundary_indices()
PoissonLaplace ==
    /\ ppc = "laplace"
    /\ D2("Poisson2D", pself.N, pself.h).ok
    /\ pA' = laplace(D2("Poisson2D", pself.N, pself.h).val, pself.N)
    /\ pbnds' = get_boundary_indices(pself.N)
    /\ pk' = 0
    /\ ppc' = "rows"
    /\ UNCHANGED <<pN, pself, pb>>
    /\ PoissonOnly

\* the D2 inside laplace() raises
PoissonRaise ==
    /\ ppc = "laplace"
    /\ ~D2("Poisson2D", pself.N, pself.h).ok
    /\ ppc' = "raised"
    /\ UNCHANGED <<pN, pself, pA, pb, pbnds, pk>>
    /\ PoissonOnly

\* one pass of: for i in bnds: A[i] = 0 ; A[i, i] = 1
PoissonRow ==
    /\ ppc = "rows"
    /\ pk < Len(pbnds)
    /\ pA' = ReplaceRow(pA, pbnds[pk + 1])
    /\ pk' = pk + 1
    /\ UNCHANGED <<ppc, pN, pself, pb, pbnds>>
    /\ PoissonOnly

\* F, self.u_exact, b and the return of (A, b)
PoissonRhs ==
    /\ ppc = "rows"
    /\ pk >= Len(pbnds)
    /\ LET F == [r \in 0..pself.N |-> [c \in 0..pself.N |->
                    f_at(pself.ue, pself.xij[r][c], pself.yij[r][c])]]
           U == [r \in 0..pself.N |-> [c \in 0..pself.N |->
                    ue_at(pself.ue, pself.xij[r][c], pself.yij[r][c])]]
       IN  /\ pself' = [k \in DOMAIN pself \cup {"u_exact"} |->
                           IF k = "u_exact" THEN U ELSE pself[k]]
           /\ pb' = Rhs(F, U, pbnds)
    /\ ppc' = "returned"
    /\ UNCHANGED <<pN, pA, pbnds, pk>>
    /\ PoissonOnly

PoissonNext == PoissonMesh \/ PoissonLaplace \/ PoissonRaise \/ PoissonRow \/ PoissonRhs

SpecPoisson == PoissonInit /\ [][PoissonNext]_vars

(* ======================= the convergence sweep ======================== *)
\* largest number m of levels of a sweep
MaxM == 6

\* the objects and arguments convergence_rates is called with: the wave
\* solvers with (m, cfl, Nt, mx, my), a Poisson2D(L, ue) with m
ConvCalls ==
    { [obj |-> [cls |-> cls], a |-> a] :
        cls \in {"Wave2D", "Wave2D_Neumann"},
        a \in [m : 0..MaxM, cfl : {<<1, 10>>}, Nt : {1, 10}, mx : {2, 3}, my : {3}] }
    \cup
    { [obj |-> [cls |-> "Poisson2D", L |-> L], a |-> [m |-> m]] :
        L \in 1..MaxL, m \in 0..MaxM }

\* lines 148-150 (114-116) have run: the lists are empty, range(m) is taken
ConvInit ==
    /\ cpc = "loop"
    /\ \E k \in ConvCalls :
         /\ cself = k.obj
         /\ cargs = k.a
         /\ cm = k.a.m
         /\ cNt = IF k.obj.cls = "Poisson2D" THEN 0 ELSE k.a.Nt
    /\ cN = N0
    /\ cnext = 0
    /\ cE = <<>> /\ ch = <<>> /\ cr = <<>> /\ calls = <<>>
    /\ D2Idle /\ WaveIdle /\ PoissonIdle

\* one pass of the loop: m takes the next value of the range, the solver runs at
\* (N0, Nt), its error and spacing are appended, N0 (and Nt) double
ConvLevel ==
    /\ cpc = "loop"
    /\ cnext < cargs.m
    /\ cm' = cnext
    /\ cnext' = cnext + 1
    /\ calls' = Append(calls, Solve(cself, cN, cNt, cargs).err)
    /\ cE' = Append(cE, Solve(cself, cN, cNt, cargs).err)
    /\ ch' = Append(ch, Solve(cself, cN, cNt, cargs).dx)
    /\ cN' = Refine(cN)
    /\ cNt' = IF cself.cls = "Poisson2D" THEN cNt ELSE Refine(cNt)
    /\ UNCHANGED <<cpc, cself, cargs, cr>>
    /\ ConvOnly

\* the range is exhausted: the list r over range(1, m+1) with the value the
\* loop left in m, an index past a list's end raising IndexError
ConvRates ==
    /\ cpc = "loop"
    /\ cnext >= cargs.m
    /\ IF \A k \in RateRange(cm) : k < Len(cE) /\ k < Len(ch)
       THEN /\ cr' = [n \in 1..Cardinality(RateRange(cm)) |->
                        LogRatio(PyAt(cE, n - 1), PyAt(cE, n), PyAt(ch, n - 1), PyAt(ch, n))]
            /\ cpc' = "returned"
       ELSE /\ cr' = "IndexError"
            /\ cpc' = "raised"
    /\ UNCHANGED <<cself, cargs, cm, cN, cNt, cnext, cE, ch, calls>>
    /\ ConvOnly

ConvNext == ConvLevel \/ ConvRates

SpecConv == ConvInit /\ [][ConvNext]_vars

(* ------------------------- claims: operator --------------------------- *)
\* the matrix D2 returned, multiplied by h^2
TimesH2 ==
    [r \in DOMAIN d2ret.val |-> [c \in DOMAIN d2ret.val[r] |->
        RMul(d2ret.val[r][c], RMul(d2self.h, d2self.h))]]
\* the row of length N+1 that holds vals from column lo on and 0 elsewhere
RowWith(N, lo, vals) ==
    [c \in 0..N |-> IF c >= lo /\ c < lo + Len(vals) THEN RInt(vals[c - lo + 1]) ELSE RZero]

\* C2: for N >= 4 the returned matrix times h^2 is (N+1)x(N+1), its interior
\* rows r hold 1, -2, 1 at columns r-1, r, r+1 and 0 elsewhere, and rows 0 and N
\* hold the one-sided stencils of the variant at their near end
C2_Stencils ==
    (d2pc = "returned" /\ d2self.N >= 4) =>
        LET N == d2self.N IN
        /\ d2ret.ok
        /\ DOMAIN TimesH2 = 0..N
        /\ \A r \in 0..N : DOMAIN TimesH2[r] = 0..N
        /\ \A r \in 1..(N - 1) : TimesH2[r] = RowWith(N, r - 1, <<1, -2, 1>>)
        /\ IF d2self.cls = "Wave2D_Neumann"
           THEN /\ TimesH2[0] = RowWith(N, 0, <<-2, 2>>)
                /\ TimesH2[N] = RowWith(N, N - 1, <<2, -2>>)
           ELSE /\ TimesH2[0] = RowWith(N, 0, <<2, -5, 4, -1>>)
                /\ TimesH2[N] = RowWith(N, N - 3, <<-1, 4, -5, 2>>)

\* the Dirichlet operator at N = 4, where the two boundary stencils overlap
C2_Witness == d2pc = "returned" /\ d2self.N = 4 /\ d2self.cls = "Poisson2D"
                /\ d2self.h = <<1, 2>>

Ring(N) == {r * (N + 1) + c : r \in {0, N}, c \in 0..N} \cup
           {r * (N + 1) + c : r \in 0..N, c \in {0, N}}
SeqRange(q) == {q[n] : n \in 1..Len(q)}

\* C3: the boundary indices are the 4N indices of the outer ring; in the (A, b)
\* returned a boundary row k of A is the identity row and b[k] the exact
\* solution at the mesh point, an interior row k = r*(N+1)+c holds
\* D2[r][p] (if q = c) + D2[c][q] (if p = r) at column p*(N+1)+q, the row of the
\* Kronecker sum, and b[k] is f at the mesh point
C3_Assembled ==
    /\ ppc # "create_mesh" /\ ppc # "idle" =>
          /\ SeqRange(get_boundary_indices(pself.N)) = Ring(pself.N)
          /\ Len(get_boundary_indices(pself.N)) = 4 * pself.N
    /\ ppc = "returned" =>
          LET N == pself.N
              D == D2("Poisson2D", N, pself.h).val
              x(k) == RDiv(RInt((k \div (N + 1)) * pself.L), RInt(N))
              y(k) == RDiv(RInt((k % (N + 1)) * pself.L), RInt(N))
          IN  /\ SeqRange(pbnds) = Ring(N)
              /\ DOMAIN pA = 0..((N + 1) * (N + 1) - 1) /\ DOMAIN pb = DOMAIN pA
              /\ \A k \in DOMAIN pA :
                    IF k \in Ring(N)
                    THEN /\ \A m \in DOMAIN pA[k] :
                              pA[k][m] = IF m = k THEN RInt(1) ELSE RZero
                         /\ pb[k] = ue_at(pself.ue, x(k), y(k))
                    ELSE /\ \A m \in DOMAIN pA[k] :
                              pA[k][m] = RAdd(IF m % (N + 1) = k % (N + 1)
                                              THEN D[k \div (N + 1)][m \div (N + 1)] ELSE RZero,
                                              IF m \div (N + 1) = k \div (N + 1)
                                              THEN D[k % (N + 1)][m % (N + 1)] ELSE RZero)
                         /\ pb[k] = f_at(pself.ue, x(k), y(k))

\* an assembled system with interior rows, whose source term and exact
\* solution differ at every mesh point off the axes
C3_Witness ==
    /\ ppc = "returned" /\ pself.N = 4 /\ pself.L = 2
    /\ pA[12][12] = RInt(-16) /\ pA[12][7] = RInt(4) /\ pA[12][11] = RInt(4)
    /\ pA[24][24] = RInt(1) /\ pA[24][23] = RZero
    /\ pb[12] # ue_at(pself.ue, RInt(1), RInt(1))

(* ----------------------- claims: convergence ------------------------- *)
RECURSIVE Pow2(_)
Pow2(k) == IF k = 0 THEN 1 ELSE 2 * Pow2(k - 1)

\* C5: called with m >= 1 the sweep returns, with m errors, m spacings and m-1
\* estimates, the estimate at (0-based) position n-1 being the log-ratio of
\* levels n-1 and n, and the error and spacing of every level in the lists
C5_Rates ==
    /\ cpc # "raised"
    /\ (cpc = "returned" /\ cargs.m >= 1) =>
          /\ Len(cE) = cargs.m /\ Len(ch) = cargs.m /\ Len(cr) = cargs.m - 1
          /\ \A n \in 1..(cargs.m - 1) :
                PyAt(cr, n - 1) = LogRatio(PyAt(cE, n - 1), PyAt(cE, n),
                                           PyAt(ch, n - 1), PyAt(ch, n))
          /\ \A n \in 0..(cargs.m - 1) :
                PyAt(cE, n) = PyAt(calls, n)

C5_Witness == cpc = "returned" /\ cargs.m = 4 /\ Len(cr) = 3 /\ cself.cls = "Wave2D"

\* C6: the solver is invoked once per level, m times in all, level n at
\* N = 8*2^n and, for the wave solvers, Nt*2^n steps and the caller's cfl; the
\* spacings recorded are L/(8*2^n), strictly decreasing, and for L = 1, m = 6
\* they are 1/8, 1/16, 1/32, 1/64, 1/128, 1/256
C6_Levels ==
    /\ Len(calls) = cnext /\ Len(ch) = cnext /\ cnext <= cargs.m
    /\ cpc = "returned" => Len(calls) = cargs.m
    /\ \A n \in 0..(Len(calls) - 1) :
          /\ PyAt(calls, n).N = 8 * Pow2(n)
          /\ cself.cls # "Poisson2D" =>
                /\ PyAt(calls, n).Nt = cargs.Nt * Pow2(n)
                /\ PyAt(calls, n).cfl = cargs.cfl
                /\ PyAt(ch, n) = <<1, 8 * Pow2(n)>>
          /\ cself.cls = "Poisson2D" =>
                PyAt(ch, n)[1] * 8 * Pow2(n) = cself.L * PyAt(ch, n)[2]
          /\ n >= 1 => PyAt(ch, n)[1] * PyAt(ch, n - 1)[2] < PyAt(ch, n - 1)[1] * PyAt(ch, n)[2]
    /\ (cpc = "returned" /\ cself.cls = "Poisson2D" /\ cself.L = 1 /\ cargs.m = 6) =>
          ch = << <<1, 8>>, <<1, 16>>, <<1, 32>>, <<1, 64>>, <<1, 128>>, <<1, 256>> >>

C6_Witness ==
    /\ cpc = "returned" /\ cself.cls = "Poisson2D" /\ cself.L = 1 /\ cargs.m = 6
    /\ Len(calls) = 6 /\ PyAt(calls, 5).N = 256

(* --------------------------- claims: wave ----------------------------- *)
\* the number of leapfrog steps executed so far
StepsDone == IF Len(layers) >= 2 THEN Len(layers) - 2 ELSE 0

EdgesZero(U) ==
    LET N == Cardinality(DOMAIN U) - 1 IN
    \A k \in 0..N : U[0][k] = RZero /\ U[N][k] = RZero /\ U[k][0] = RZero /\ U[k][N] = RZero

\* C1: in the Dirichlet solver, once a step has run, the four edges of Unp1
\* (as apply_bcs left it) and of Un (after the rotation) are exactly 0
C1_EdgesZero ==
    (args.cls = "Wave2D" /\ StepsDone >= 1) =>
        (EdgesZero(heap[ref.Unp1]) /\ EdgesZero(heap[ref.Un]))

\* a Dirichlet solve after a step whose next raw update is nonzero on an edge
\* and whose field is nonzero inside
C1_Witness ==
    /\ pc = "loop" /\ self.cls = "Wave2D" /\ StepsDone >= 1
    /\ ~EdgesZero(Leapfrog(self, D2(self.cls, args.N, self.h).val, ref, heap)[ref.Unp1])
    /\ heap[ref.Un] # zeros(args.N)

C10_LayersAligned ==
    [][ /\ (pc = "call" /\ pc' = "loop") =>
            /\ Len(heap') = 3 /\ Cardinality({ref'.Unp1, ref'.Un, ref'.Unm1}) = 3
            /\ heap'[ref'.Unm1] = layers'[1] /\ heap'[ref'.Un] = layers'[2]
            /\ layers'[1] = Sampled0
            /\ l2_list' = <<l2_error(layers'[2], dt(self'))>>
        /\ (pc = "loop" /\ layers' # layers) =>
            /\ ref' = ref /\ Len(heap') = Len(heap)
            /\ heap'[ref'.Unm1] = heap[ref.Un]
            /\ heap'[ref'.Un] = heap'[ref'.Unp1]
            /\ heap'[ref'.Un] = layers'[i + 2]
            /\ heap'[ref'.Unm1] = layers'[i + 1]
            /\ l2_list' = Append(l2_list,
                                 l2_error(layers'[i + 2], RMul(RInt(i + 1), dt(self))))
      ]_vars

\* the third step of a solve has run and the layers differ
C10_Witness ==
    /\ pc = "loop" /\ StepsDone = 3
    /\ layers[3] # layers[4] /\ layers[4] # layers[5]
    /\ heap[ref.Un] = layers[5] /\ heap[ref.Unm1] = layers[4]
====
